---- MODULE Spec2Model ----
(***************************************************************************)
(* The two air-quality adapters, au_act (JSON API) and nsw (HTML table):   *)
(* fetchData's request callback as a state machine, and the two           *)
(* formatData passes it runs, one row per step.                            *)
(*                                                                         *)
(* JavaScript values are represented as follows.                           *)
(*   undefined, null      the strings Undefined and Null                   *)
(*   a number             [nan |-> FALSE, n |-> i], NaN is [nan |-> TRUE]  *)
(*   an array             a sequence; index -1 of findIndex is 0 here,     *)
(*                        index i is i + 1                                 *)
(*   a thrown exception   the field threw of a step's result               *)
(* A pollutant label of the nsw header row is a sequence of characters,    *)
(* so that replace and toLowerCase are computed on it.                     *)
(***************************************************************************)
EXTENDS Integers, Sequences, FiniteSets, TLC

\* Bounds of the model.
MaxJsonRows == 2        \* Spec: rows of the JSON array
DocCells == 2           \* Spec: cells of a table row
MaxCells == 3           \* SpecColumns: cells of a table row
MaxSiteRows == 3        \* SpecRegion: table rows after the two header rows
MaxAccum == 3           \* SpecDedup: accumulated measurements

VARIABLES
    adapter,            \* which module's fetchData runs: "au_act" or "nsw"
    pc,                 \* position of the invocation
    response,           \* (err, res, body) handed to the request callback
    calls,              \* the invocations of cb so far, in order
    escaped,            \* an exception left the request callback
    formatRuns,         \* number of times formatData was entered
    dateCell,           \* nsw: the html of td.date, as DateStrings gives it
    date,               \* nsw: var date
    idy,                \* nsw: index of the next table row; au_act: of the next array row
    indexParams,        \* nsw: var indexParams
    region,             \* nsw: var region
    measurements,       \* var measurements (both adapters)
    finalMeasurements,  \* nsw: var finalMeasurements after the dedup loop
    data                \* var data of fetchData

vars == <<adapter, pc, response, calls, escaped, formatRuns, dateCell, date, idy,
          indexParams, region, measurements, finalMeasurements, data>>

Undefined == "<undefined>"
Null == "<null>"

SeqsUpTo(S, n) == UNION {[1..k -> S] : k \in 0..n}

(***************************************************************************)
(* Number(v) on the values the adapters apply it to.                       *)
(***************************************************************************)
NaN == [nan |-> TRUE, n |-> 0]
Num(i) == [nan |-> FALSE, n |-> i]

NumericValue ==
    ("" :> 0) @@ ("0" :> 0) @@ ("1" :> 1) @@ ("2" :> 2) @@
    ("3" :> 3) @@ ("4" :> 4) @@ ("5" :> 5) @@ ("7" :> 7) @@ ("8" :> 8) @@
    ("11" :> 11) @@ ("12" :> 12) @@ ("24" :> 24)

Number(v) ==
    IF v = Null THEN Num(0)
    ELSE IF v \in DOMAIN NumericValue THEN Num(NumericValue[v])
    ELSE NaN

(***************************************************************************)
(* fetchData: the error objects and the result handed to cb.               *)
(***************************************************************************)
LoadFailure == "Failure to load data url."
ParseFailure == "Failure to parse data."
UnknownError == "Unknown adapter error."

NoData == [defined |-> FALSE, name |-> "", measurements |-> <<>>]
\* A slip: formatData returns nothing.
Result_Undefined(ms) == NoData

Result(ms) == [defined |-> TRUE, name |-> "unused", measurements |-> ms]

Adapters == {"au_act", "nsw"}
StatusCodes == {200, 404, 500}

\* What request can hand to its callback: an error with no response, or a
\* response with a status code and a body. The body of the JSON adapter is
\* text that JSON.parse rejects, JSON that is no array, or an array of rows;
\* the rows themselves are read one per step.
Bodies(a) == IF a = "au_act" THEN {"malformed", "object", "array"} ELSE {"html"}

Responses(a) ==
    {[err |-> TRUE, statusCode |-> 0, body |-> Undefined]} \cup
    {[err |-> FALSE, statusCode |-> s, body |-> b] : s \in StatusCodes, b \in Bodies(a)}

NoResponse == [err |-> FALSE, statusCode |-> 0, body |-> Undefined]

\* A slip: the status code is not looked at.
TransportFailed_ErrOnly(r) == r.err

TransportFailed(r) == r.err \/ r.statusCode # 200

Call(e, d) == [err |-> e, data |-> d]

(***************************************************************************)
(* au_act: formatData.                                                     *)
(***************************************************************************)
\* Object.keys(types), in insertion order, with the mapped parameter.
types ==
    << [key |-> "no2", parameter |-> "no2"],
       [key |-> "o3_1hr", parameter |-> "o3"],
       [key |-> "co", parameter |-> "co"],
       [key |-> "pm10", parameter |-> "pm10"],
       [key |-> "pm2_5", parameter |-> "pm25"] >>

actUnits ==
    ("no2" :> "ppm") @@ ("o3" :> "ppm") @@ ("co" :> "ppm") @@
    ("pm10" :> "µg/m³") @@ ("pm25" :> "µg/m³")

TypeKeys == {types[i].key : i \in 1..Len(types)}

\* Rows of the JSON array: the keys present (recognized or not), each with a
\* value, the station name, and whether the gps sub-object is there.
JsonKeys == TypeKeys \cup {"so2"}
JsonNames == {"Civic"}
JsonValues == {"7"}
JsonRows ==
    {[name |-> nm, fields |-> f, gps |-> g] :
        nm \in JsonNames,
        f \in UNION {[ks -> JsonValues] : ks \in SUBSET JsonKeys},
        g \in BOOLEAN}

actBase(row) ==
    [location |-> row.name, city |-> "Canberra", country |-> "AU",
     sourceType |-> "government", mobile |-> FALSE,
     averagingPeriod |-> [value |-> 1, unit |-> "hours"]]

\* cloneDeep(baseMeasurement) with parameter, value and unit set.
actMeasurement(row, t) ==
    [parameter |-> t.parameter,
     value |-> Number(row.fields[t.key]),
     unit |-> actUnits[t.parameter]] @@ actBase(row)

\* A slip: the loop over the types stops at the first key it finds.
RECURSIVE actTypesLoop_FirstOnly(_, _, _)
actTypesLoop_FirstOnly(row, k, ms) ==
    IF k > Len(types) THEN ms
    ELSE IF types[k].key \in DOMAIN row.fields
         THEN Append(ms, actMeasurement(row, types[k]))
         ELSE actTypesLoop_FirstOnly(row, k + 1, ms)

RECURSIVE actTypesLoop(_, _, _)
actTypesLoop(row, k, ms) ==
    IF k > Len(types) THEN ms
    ELSE actTypesLoop(row, k + 1,
            IF types[k].key \in DOMAIN row.fields
            THEN Append(ms, actMeasurement(row, types[k]))
            ELSE ms)

\* A slip: a row without gps is skipped instead of throwing.
actRow_SkipsBadRow(row, ms) ==
    IF ~row.gps THEN [threw |-> FALSE, measurements |-> ms]
    ELSE [threw |-> FALSE, measurements |-> actTypesLoop(row, 1, ms)]

\* One call of the data.forEach callback: row.gps.latitude throws when the
\* row has no gps object, before anything is pushed for the row.
actRow(row, ms) ==
    IF ~row.gps THEN [threw |-> TRUE, measurements |-> ms]
    ELSE [threw |-> FALSE, measurements |-> actTypesLoop(row, 1, ms)]

\* lodash flatten: one level, and the elements are objects, not arrays.
flatten(ms) == ms

(***************************************************************************)
(* nsw: parseDate.                                                         *)
(***************************************************************************)
\* The html of td.date: null when the document has no such cell, otherwise
\* a string, given by what split('<br>') makes of it: nparts parts, of which
\* d[1] is the date "D MMMM YYYY" (by its fields) and d[2] the hour range (by
\* the tokens split(' ') makes of it, e.g. <<"11", "-", "12", "am">>).
DateTexts ==
    {[D |-> 13, M |-> 12, Y |-> 2016], [D |-> 31, M |-> 12, Y |-> 2016],
     [D |-> 28, M |-> 2, Y |-> 2016]}
HourRanges ==
    {<<"11", "-", "12", "am">>, <<"11", "-", "12", "pm">>, <<"3", "-", "4", "pm">>,
     <<"12", "-", "1", "am">>}
NoDateText == [D |-> 0, M |-> 0, Y |-> 0]
NoDateCell == [isNull |-> TRUE, nparts |-> 0, d1 |-> NoDateText, d2 |-> <<>>]
DateStrings ==
    {[isNull |-> TRUE, nparts |-> 0, d1 |-> NoDateText, d2 |-> <<>>],
     [isNull |-> FALSE, nparts |-> 1, d1 |-> NoDateText, d2 |-> <<>>]} \cup
    {[isNull |-> FALSE, nparts |-> 3, d1 |-> d, d2 |-> t] : d \in DateTexts, t \in HourRanges}

IsLeap(y) == (y % 4 = 0 /\ y % 100 # 0) \/ y % 400 = 0
DaysIn(m, y) ==
    IF m = 2 THEN (IF IsLeap(y) THEN 29 ELSE 28)
    ELSE IF m \in {4, 6, 9, 11} THEN 30 ELSE 31

\* moment's 'h' and 'a' tokens: a 12-hour clock reading to an hour of the day.
HourOfDay(h, a) ==
    LET n == Number(h).n
    IN IF a = "pm" THEN (IF n < 12 THEN n + 12 ELSE n)
       ELSE (IF n = 12 THEN 0 ELSE n)

\* date.add(offset, 'day') for an offset of 0 or 1.
AddDays(t, offset) ==
    IF offset = 0 THEN t
    ELSE IF t.D < DaysIn(t.M, t.Y) THEN [t EXCEPT !.D = t.D + 1]
    ELSE IF t.M < 12 THEN [t EXCEPT !.D = 1, !.M = t.M + 1]
    ELSE [t EXCEPT !.D = 1, !.M = 1, !.Y = t.Y + 1]

NoDate == [Y |-> 0, M |-> 0, D |-> 0, h |-> 0]

\* A slip: the day is added whenever the 'to' hour reads 12.
parseDate_AnyTwelve(dateString) ==
    IF dateString.isNull \/ dateString.nparts < 3
    THEN [threw |-> TRUE, date |-> NoDate]
    ELSE LET timeString == dateString.d2
             time == <<timeString[3], timeString[4]>>
             dateOffset == IF time[1] = "12" THEN 1 ELSE 0
             parsed == [Y |-> dateString.d1.Y, M |-> dateString.d1.M,
                        D |-> dateString.d1.D, h |-> HourOfDay(time[1], time[2])]
         IN [threw |-> FALSE, date |-> AddDays(parsed, dateOffset)]

\* The local time in Australia/Melbourne; utc is the same instant.
parseDate(dateString) ==
    IF dateString.isNull \/ dateString.nparts < 3
    THEN [threw |-> TRUE, date |-> NoDate]
    ELSE LET timeString == dateString.d2
             time == <<timeString[3], timeString[4]>>
             dateOffset == IF time = <<"12", "am">> THEN 1 ELSE 0
             parsed == [Y |-> dateString.d1.Y, M |-> dateString.d1.M,
                        D |-> dateString.d1.D, h |-> HourOfDay(time[1], time[2])]
         IN [threw |-> FALSE, date |-> AddDays(parsed, dateOffset)]

(***************************************************************************)
(* nsw: the pass over the rows of table.aqi.                               *)
(***************************************************************************)
UpperChars == <<"C", "H", "E", "M", "N", "O", "P", "S">>
LowerChars == <<"c", "h", "e", "m", "n", "o", "p", "s">>

toLowerCase(s) ==
    [i \in 1..Len(s) |->
        IF \E j \in 1..Len(UpperChars) : UpperChars[j] = s[i]
        THEN LowerChars[CHOOSE j \in 1..Len(UpperChars) : UpperChars[j] = s[i]]
        ELSE s[i]]

\* String.replace('.', ''): the first '.' only.
replaceDot(s) ==
    IF \E i \in 1..Len(s) : s[i] = "."
    THEN LET i == CHOOSE k \in 1..Len(s) : s[k] = "." /\ \A j \in 1..(k - 1) : s[j] # "."
         IN SubSeq(s, 1, i - 1) \o SubSeq(s, i + 1, Len(s))
    ELSE s

nswUnits ==
    (<<"o", "3">> :> "pphm") @@ (<<"n", "o", "2">> :> "pphm") @@
    (<<"c", "o">> :> "ppm") @@ (<<"n", "e", "p", "h">> :> "Bsp, 10-4 m-1") @@
    (<<"s", "o", "2">> :> "pphm") @@ (<<"p", "m", "2", "5">> :> "µg/m³") @@
    (<<"p", "m", "1", "0">> :> "µg/m³")

unitOf(parameter) ==
    IF parameter \in DOMAIN nswUnits THEN nswUnits[parameter] ELSE Undefined

\* The coordinates table, in units of 1e-7 degree; two of its sites.
coordinates ==
    ("Bargo" :> [latitude |-> -343075000, longitude |-> 1505800000]) @@
    ("Albury" :> [latitude |-> -360516667, longitude |-> 1469741667])

\* Number($(this).attr('colspan')) || 1, the attribute being absent
\* (undefined) or a string.
ColIncrement(attr) ==
    LET n == Number(attr)
    IN IF n.nan \/ n.n = 0 THEN 1 ELSE n.n

\* _.findIndex(indexParams, {col: c}): the first entry with that col, 0 for -1.
findIndex(ip, c) ==
    IF \E i \in 1..Len(ip) : ip[i].col = c
    THEN CHOOSE i \in 1..Len(ip) : ip[i].col = c /\ \A j \in 1..(i - 1) : ip[j].col # c
    ELSE 0

ColspanAttrs == {Undefined, "2"}

\* Row 0. A cell either holds an anchor or not; after the anchor comes
\* '<br>' and the label, or nothing the pattern '</a><br>+(.+)' matches.
NoLabel == <<>>
Labels == {<<"O", "3">>, <<"P", "M", "2", ".", "5">>}
HeaderCells ==
    {[colspan |-> c, anchor |-> FALSE, label |-> NoLabel] : c \in ColspanAttrs} \cup
    {[colspan |-> c, anchor |-> TRUE, label |-> l] :
        c \in ColspanAttrs, l \in Labels \cup {NoLabel}}

RECURSIVE headerCells(_, _, _, _)
headerCells(cells, k, colCounter, ip) ==
    IF k > Len(cells) THEN [threw |-> FALSE, indexParams |-> ip]
    ELSE LET cell == cells[k]
             cc == colCounter + ColIncrement(cell.colspan)
         IN IF cell.anchor
            THEN IF cell.label = NoLabel
                 THEN [threw |-> TRUE, indexParams |-> ip]
                 ELSE headerCells(cells, k + 1, cc,
                        Append(ip, [col |-> cc,
                                    parameter |-> toLowerCase(replaceDot(cell.label)),
                                    avgPeriod |-> Null]))
            ELSE headerCells(cells, k + 1, cc, ip)

headerRow(cells) == headerCells(cells, 1, 0, <<>>)

\* Row 1. period is the digits the pattern '([0-9]+)-hour' captures in the
\* cell's html, or NoMatch.
NoMatch == "<no match>"
Periods == {"1", "24"}
PeriodCells ==
    {[colspan |-> c, period |-> p] : c \in ColspanAttrs, p \in Periods \cup {NoMatch}}

\* A slip: a period cell over a column without header entry is skipped.
RECURSIVE periodCells_SkipsMissing(_, _, _, _)
periodCells_SkipsMissing(cells, k, colCounter, ip) ==
    IF k > Len(cells) THEN [threw |-> FALSE, indexParams |-> ip]
    ELSE LET cell == cells[k]
             cc == colCounter + ColIncrement(cell.colspan)
             i == findIndex(ip, cc)
         IN IF cell.period # NoMatch /\ i # 0
            THEN periodCells_SkipsMissing(cells, k + 1, cc,
                    [ip EXCEPT ![i].avgPeriod = cell.period])
            ELSE periodCells_SkipsMissing(cells, k + 1, cc, ip)

RECURSIVE periodCells(_, _, _, _)
periodCells(cells, k, colCounter, ip) ==
    IF k > Len(cells) THEN [threw |-> FALSE, indexParams |-> ip]
    ELSE LET cell == cells[k]
             cc == colCounter + ColIncrement(cell.colspan)
             i == findIndex(ip, cc)
         IN IF cell.period # NoMatch
            THEN IF i = 0
                 THEN [threw |-> TRUE, indexParams |-> ip]
                 ELSE periodCells(cells, k + 1, cc, [ip EXCEPT ![i].avgPeriod = cell.period])
            ELSE periodCells(cells, k + 1, cc, ip)

periodRow(cells, ip) == periodCells(cells, 1, 0, ip)

\* The index of the first row that is neither row 0 nor row 1.
FirstDataRow == 2

\* Rows 2 and later. A row is its child cells in order, each with its class,
\* colspan attribute and text. The rows read here are laid out as the page
\* lays them out: an optional region cell, an optional site cell, then value
\* cells.
RegionTexts == {"", "Sydney", "Illawarra"}
SiteTexts == {"Bargo", "Nowhere"}
ValueTexts == {"", "5"}
ValueCells == {[class |-> "", colspan |-> c, text |-> t] : c \in ColspanAttrs, t \in ValueTexts}
RegionParts(texts) ==
    {<<>>} \cup {<<[class |-> "region", colspan |-> Undefined, text |-> t]>> : t \in texts}
SiteParts(texts) ==
    {<<>>} \cup {<<[class |-> "site", colspan |-> Undefined, text |-> t]>> : t \in texts}
DataRows(n, regionTexts, siteTexts) ==
    {row \in {r \o s \o v : r \in RegionParts(regionTexts), s \in SiteParts(siteTexts),
                            v \in SeqsUpTo(ValueCells, n)} :
        Len(row) <= n}

SiteRows(n, regionTexts, siteTexts) ==
    {row \in DataRows(n, regionTexts, siteTexts) : \E k \in 1..Len(row) : row[k].class = "site"}

hasClass(row, class) == \E k \in 1..Len(row) : row[k].class = class

\* $('.region', this).text() and $('.site', this).text(): the text of the
\* cell of that class, '' when the row has none.
textOf(row, class) ==
    IF hasClass(row, class)
    THEN row[CHOOSE k \in 1..Len(row) : row[k].class = class].text
    ELSE ""

nswBase(row, reg, dt) ==
    LET site == textOf(row, "site")
        base == [city |-> reg, location |-> site, date |-> dt,
                 attribution |-> "State of New South Wales (Department of Planning, Industry and Environment)"]
    IN IF site \in DOMAIN coordinates
       THEN base @@ [coordinates |-> coordinates[site]]
       ELSE base

\* cloneDeep(base) with parameter, unit, value and averagingPeriod set.
nswMeasurement(base, p, text) ==
    [parameter |-> p.parameter,
     unit |-> unitOf(p.parameter),
     value |-> Number(text),
     averagingPeriod |-> [value |-> Number(p.avgPeriod).n, unit |-> "hours"]] @@ base

RECURSIVE siteCells(_, _, _, _, _, _)
siteCells(cells, k, colCounter, ip, base, ms) ==
    IF k > Len(cells) THEN ms
    ELSE LET cell == cells[k]
             cc == colCounter + ColIncrement(cell.colspan)
             i == findIndex(ip, cc)
         IN siteCells(cells, k + 1, cc, ip, base,
                IF cell.text # "" /\ i # 0
                THEN Append(ms, nswMeasurement(base, ip[i], cell.text))
                ELSE ms)

\* A slip: region = regionString
nextRegion_NoCarry(row, reg) == textOf(row, "region")

\* region = regionString || region
nextRegion(row, reg) ==
    LET regionString == textOf(row, "region")
    IN IF regionString # "" THEN regionString ELSE reg

\* A slip: the missing region column is not accounted for.
startColumn_Zero(row) == 0

\* The column counter a site row starts from.
startColumn(row) == IF hasClass(row, "region") THEN 0 ELSE 1

\* A row of index 2 or more: the new region and measurements.
dataRow(row, ip, reg, dt, ms) ==
    IF hasClass(row, "site")
    THEN LET r == nextRegion(row, reg)
         IN [region |-> r,
             measurements |-> siteCells(row, 1, startColumn(row), ip, nswBase(row, r, dt), ms)]
    ELSE [region |-> reg, measurements |-> ms]

(***************************************************************************)
(* nsw: the dedup loop and the two utilities applied after it.             *)
(***************************************************************************)
\* _.findIndex(finalMeasurements, _.matches({parameter, location})), 0 for -1.
matchIndex(final, m) ==
    IF \E i \in 1..Len(final) : final[i].parameter = m.parameter /\ final[i].location = m.location
    THEN CHOOSE i \in 1..Len(final) :
            /\ final[i].parameter = m.parameter /\ final[i].location = m.location
            /\ \A j \in 1..(i - 1) :
                ~(final[j].parameter = m.parameter /\ final[j].location = m.location)
    ELSE 0

\* finalMeasurements.splice(match, 1)
splice(final, match) == SubSeq(final, 1, match - 1) \o SubSeq(final, match + 1, Len(final))

\* A slip: the comparison is the wrong way round.
dedupStep_KeepsLongest(final, m) ==
    LET match == matchIndex(final, m)
    IN IF match = 0 THEN Append(final, m)
       ELSE IF m.averagingPeriod.value > final[match].averagingPeriod.value
            THEN splice(Append(final, m), match)
            ELSE final

\* One pass of the for loop over measurements.
dedupStep(final, m) ==
    LET match == matchIndex(final, m)
    IN IF match = 0 THEN Append(final, m)
       ELSE IF m.averagingPeriod.value < final[match].averagingPeriod.value
            THEN splice(Append(final, m), match)
            ELSE final

RECURSIVE dedupLoop(_, _, _)
dedupLoop(ms, k, final) ==
    IF k > Len(ms) THEN final
    ELSE dedupLoop(ms, k + 1, dedupStep(final, ms[k]))

dedup(ms) == dedupLoop(ms, 1, <<>>)

\* lib/utils: the parameter allow-list filter and the unit conversion. The
\* conversion table is not part of these sources; nothing below reads a unit
\* or a value after it.
acceptableParameters ==
    {<<"p", "m", "2", "5">>, <<"p", "m", "1", "0">>, <<"c", "o">>,
     <<"s", "o", "2">>, <<"n", "o", "2">>, <<"o", "3">>}

RECURSIVE removeUnwantedParameters(_)
removeUnwantedParameters(ms) ==
    IF ms = <<>> THEN <<>>
    ELSE (IF Head(ms).parameter \in acceptableParameters THEN <<Head(ms)>> ELSE <<>>)
         \o removeUnwantedParameters(Tail(ms))

convertUnits(ms) == ms

(***************************************************************************)
(* fetchData and the request callback.                                     *)
(***************************************************************************)
Init ==
    /\ adapter \in Adapters
    /\ pc = "idle"
    /\ response = NoResponse
    /\ calls = <<>>
    /\ escaped = FALSE
    /\ formatRuns = 0
    /\ dateCell = NoDateCell
    /\ date = NoDate
    /\ idy = 0
    /\ indexParams = <<>>
    /\ region = ""
    /\ measurements = <<>>
    /\ finalMeasurements = <<>>
    /\ data = NoData

\* The locals of formatData.
locals == <<date, idy, indexParams, region, measurements, finalMeasurements>>

\* formatData has returned or has been unwound: its locals are gone.
DropLocals ==
    /\ date' = NoDate
    /\ idy' = 0
    /\ indexParams' = <<>>
    /\ region' = ""
    /\ measurements' = <<>>
    /\ finalMeasurements' = <<>>

\* fetchData(source, cb): the request is issued.
Request ==
    /\ pc = "idle"
    /\ pc' = "waiting"
    /\ UNCHANGED <<adapter, response, calls, escaped, formatRuns, dateCell, locals, data>>

\* request calls back, once, with an error or a response.
Respond ==
    /\ pc = "waiting"
    /\ \E r \in Responses(adapter) : response' = r
    /\ pc' = "responded"
    /\ UNCHANGED <<adapter, calls, escaped, formatRuns, dateCell, locals, data>>

\* if (err || res.statusCode !== 200) return cb({message: ...}). The callback
\* may itself throw; nothing catches that here.
LoadFailed ==
    /\ pc = "responded"
    /\ TransportFailed(response)
    /\ calls' = Append(calls, Call(LoadFailure, NoData))
    /\ \E throws \in BOOLEAN : escaped' = throws
    /\ pc' = "done"
    /\ UNCHANGED <<adapter, response, formatRuns, dateCell, locals, data>>

\* au_act: JSON.parse(body), evaluated before formatData is called.
actParse ==
    /\ adapter = "au_act"
    /\ pc = "responded"
    /\ ~TransportFailed(response)
    /\ pc' = IF response.body = "malformed" THEN "catch" ELSE "format"
    /\ UNCHANGED <<adapter, response, calls, escaped, formatRuns, dateCell, locals, data>>

\* au_act: formatData is entered; data.forEach throws on what is no array.
actFormat ==
    /\ adapter = "au_act"
    /\ pc = "format"
    /\ formatRuns' = formatRuns + 1
    /\ pc' = IF response.body = "array" THEN "rows" ELSE "catch"
    /\ UNCHANGED <<adapter, response, calls, escaped, dateCell, locals, data>>

\* au_act: the forEach callback on the next row of the array.
actForEach ==
    /\ adapter = "au_act"
    /\ pc = "rows"
    /\ idy < MaxJsonRows
    /\ \E row \in JsonRows :
        LET r == actRow(row, measurements)
        IN /\ measurements' = r.measurements
           /\ pc' = IF r.threw THEN "catch" ELSE "rows"
    /\ idy' = idy + 1
    /\ UNCHANGED <<adapter, response, calls, escaped, formatRuns, dateCell, date,
                   indexParams, region, finalMeasurements, data>>

\* au_act: the array is exhausted and formatData returns.
actReturn ==
    /\ adapter = "au_act"
    /\ pc = "rows"
    /\ data' = Result(flatten(measurements))
    /\ pc' = "deliver"
    /\ UNCHANGED <<adapter, response, calls, escaped, formatRuns, dateCell, locals>>

\* nsw: formatData is entered, up to and including parseDate, the html of
\* td.date being one of dates.
FormatFrom(dates) ==
    /\ adapter = "nsw"
    /\ pc = "responded"
    /\ ~TransportFailed(response)
    /\ formatRuns' = formatRuns + 1
    /\ \E dateString \in dates :
        LET r == parseDate(dateString)
        IN /\ dateCell' = dateString
           /\ date' = r.date
           /\ pc' = IF r.threw THEN "catch" ELSE "rows"
    /\ UNCHANGED <<adapter, response, calls, escaped, idy, indexParams, region,
                   measurements, finalMeasurements, data>>

\* nsw: the each callback on row 0, the row being one of rows.
HeaderRowFrom(rows) ==
    /\ adapter = "nsw"
    /\ pc = "rows"
    /\ idy = 0
    /\ \E cells \in rows :
        LET r == headerRow(cells)
        IN /\ indexParams' = r.indexParams
           /\ pc' = IF r.threw THEN "catch" ELSE "rows"
    /\ idy' = idy + 1
    /\ UNCHANGED <<adapter, response, calls, escaped, formatRuns, dateCell, date, region,
                   measurements, finalMeasurements, data>>

\* nsw: the each callback on row 1, the row being one of rows.
PeriodRowFrom(rows) ==
    /\ adapter = "nsw"
    /\ pc = "rows"
    /\ idy = 1
    /\ \E cells \in rows :
        LET r == periodRow(cells, indexParams)
        IN /\ indexParams' = r.indexParams
           /\ pc' = IF r.threw THEN "catch" ELSE "rows"
    /\ idy' = idy + 1
    /\ UNCHANGED <<adapter, response, calls, escaped, formatRuns, dateCell, date, region,
                   measurements, finalMeasurements, data>>

\* nsw: the each callback on a row that is neither row 0 nor row 1, the row
\* being one of rows and the table having at most n such rows.
DataRowFrom(rows, n) ==
    /\ adapter = "nsw"
    /\ pc = "rows"
    /\ idy >= FirstDataRow
    /\ idy < FirstDataRow + n
    /\ \E row \in rows :
        LET r == dataRow(row, indexParams, region, date, measurements)
        IN /\ region' = r.region
           /\ measurements' = r.measurements
    /\ idy' = idy + 1
    /\ UNCHANGED <<adapter, pc, response, calls, escaped, formatRuns, dateCell, date,
                   indexParams, finalMeasurements, data>>

\* Spec follows the row pass through the first data row.
nswFormat == FormatFrom(DateStrings)
nswHeaderRow == HeaderRowFrom(SeqsUpTo(HeaderCells, DocCells))
nswPeriodRow == PeriodRowFrom(SeqsUpTo(PeriodCells, DocCells))
nswDataRow == DataRowFrom(DataRows(DocCells, RegionTexts, SiteTexts), 1)

\* nsw: the table is exhausted; the dedup loop, the two utilities, return.
nswReturn ==
    /\ adapter = "nsw"
    /\ pc = "rows"
    /\ finalMeasurements' = dedup(measurements)
    /\ data' = Result(convertUnits(removeUnwantedParameters(dedup(measurements))))
    /\ pc' = "deliver"
    /\ UNCHANGED <<adapter, response, calls, escaped, formatRuns, dateCell, date, idy,
                   indexParams, region, measurements>>

\* if (data === undefined) return cb({message: ...}); cb(null, data). Both
\* calls sit inside the try block: a callback that throws lands in catch.
Deliver ==
    /\ pc = "deliver"
    /\ calls' = Append(calls, IF data.defined THEN Call(Null, data)
                              ELSE Call(ParseFailure, NoData))
    /\ \E throws \in BOOLEAN : pc' = IF throws THEN "catch" ELSE "done"
    /\ DropLocals
    /\ UNCHANGED <<adapter, response, escaped, formatRuns, dateCell, data>>

\* catch (e) { return cb({message: 'Unknown adapter error.'}) }
Catch ==
    /\ pc = "catch"
    /\ calls' = Append(calls, Call(UnknownError, NoData))
    /\ \E throws \in BOOLEAN : escaped' = throws
    /\ pc' = "done"
    /\ DropLocals
    /\ UNCHANGED <<adapter, response, formatRuns, dateCell, data>>

Next ==
    \/ Request
    \/ Respond
    \/ LoadFailed
    \/ actParse
    \/ actFormat
    \/ actForEach
    \/ actReturn
    \/ nswFormat
    \/ nswHeaderRow
    \/ nswPeriodRow
    \/ nswDataRow
    \/ nswReturn
    \/ Deliver
    \/ Catch

Spec == Init /\ [][Next]_vars

(***************************************************************************)
(* The nsw formatter on its own, from the state in which a 200 response    *)
(* has arrived. SpecColumns reads one date, wider header rows and the      *)
(* first data row; SpecRegion reads any date, the page's header layout and *)
(* several data rows.                                                      *)
(***************************************************************************)
TableDate == [isNull |-> FALSE, nparts |-> 3, d1 |-> [D |-> 13, M |-> 12, Y |-> 2016],
              d2 |-> <<"3", "-", "4", "pm">>]

TableInit ==
    /\ adapter = "nsw"
    /\ pc = "responded"
    /\ response = [err |-> FALSE, statusCode |-> 200, body |-> "html"]
    /\ calls = <<>>
    /\ escaped = FALSE
    /\ formatRuns = 0
    /\ dateCell = NoDateCell
    /\ date = NoDate
    /\ idy = 0
    /\ indexParams = <<>>
    /\ region = ""
    /\ measurements = <<>>
    /\ finalMeasurements = <<>>
    /\ data = NoData

colFormat == FormatFrom({TableDate})
colHeaderRow == HeaderRowFrom(SeqsUpTo(HeaderCells, MaxCells))
\* Period cells without colspan attribute.
SingleColumnPeriodCells == {c \in PeriodCells : c.colspan = Undefined}
colPeriodRow == PeriodRowFrom(SeqsUpTo(SingleColumnPeriodCells, MaxCells))
colDataRow == DataRowFrom(SiteRows(MaxCells, {"Sydney"}, {"Bargo"}), 1)

NextColumns == colFormat \/ colHeaderRow \/ colPeriodRow \/ colDataRow

SpecColumns == TableInit /\ [][NextColumns]_vars

\* The layout of the page: a region column, a site column, then the
\* pollutant columns.
PlainCell == [colspan |-> Undefined, anchor |-> FALSE, label |-> NoLabel]
RegionHeaderRows ==
    {<<PlainCell, PlainCell, [colspan |-> Undefined, anchor |-> TRUE, label |-> l]>> : l \in Labels}
RegionPeriodRows ==
    {<<[colspan |-> Undefined, period |-> NoMatch], [colspan |-> Undefined, period |-> NoMatch],
       [colspan |-> Undefined, period |-> p]>> : p \in Periods}

\* A data row of that layout: its region cell or none, its site cell or none,
\* its value cell or none.
RegionDataRows ==
    {r \o s \o v : r \in RegionParts(RegionTexts), s \in SiteParts(SiteTexts),
                   v \in {<<>>} \cup {<<c>> : c \in ValueCells}}

regFormat == FormatFrom(DateStrings)
regHeaderRow == HeaderRowFrom(RegionHeaderRows)
regPeriodRow == PeriodRowFrom(RegionPeriodRows)
regDataRow == DataRowFrom(RegionDataRows, MaxSiteRows)

NextRegion == regFormat \/ regHeaderRow \/ regPeriodRow \/ regDataRow

SpecRegion == TableInit /\ [][NextRegion]_vars

(***************************************************************************)
(* The dedup loop on its own, from the end of the row pass over a table    *)
(* whose header repeats each pollutant once per averaging period and whose *)
(* site rows each report one value.                                        *)
(***************************************************************************)
DedupParams ==
    <<[col |-> 3, parameter |-> <<"o", "3">>, avgPeriod |-> "1"],
      [col |-> 4, parameter |-> <<"o", "3">>, avgPeriod |-> "24"],
      [col |-> 5, parameter |-> <<"o", "3">>, avgPeriod |-> Null],
      [col |-> 6, parameter |-> <<"p", "m", "2", "5">>, avgPeriod |-> "1"],
      [col |-> 7, parameter |-> <<"p", "m", "2", "5">>, avgPeriod |-> "24"],
      [col |-> 8, parameter |-> <<"p", "m", "2", "5">>, avgPeriod |-> Null]>>

AccumEntries ==
    {nswMeasurement(nswBase(<<[class |-> "site", colspan |-> Undefined, text |-> site]>>,
                            "Sydney", parseDate(TableDate).date),
                    DedupParams[i], "5") :
        site \in SiteTexts, i \in 1..Len(DedupParams)}

DedupInit ==
    /\ adapter = "nsw"
    /\ pc = "rows"
    /\ response = [err |-> FALSE, statusCode |-> 200, body |-> "html"]
    /\ calls = <<>>
    /\ escaped = FALSE
    /\ formatRuns = 1
    /\ dateCell = TableDate
    /\ date = parseDate(TableDate).date
    /\ indexParams = DedupParams
    /\ region = "Sydney"
    /\ measurements \in SeqsUpTo(AccumEntries, MaxAccum)
    /\ idy = FirstDataRow + Len(measurements)
    /\ finalMeasurements = <<>>
    /\ data = NoData

NextDedup == nswReturn

SpecDedup == DedupInit /\ [][NextDedup]_vars

(***************************************************************************)
(* The properties.                                                         *)
(***************************************************************************)
Range(f) == {f[i] : i \in DOMAIN f}

\* The measurements appended to before to give after.
Added(before, after) == SubSeq(after, Len(before) + 1, Len(after))

\* A call that delivers an error and no data, or no error and a result.
ErrorCall(c) == c.err # Null /\ ~c.data.defined
DataCall(c) == c.err = Null /\ c.data.defined /\ c.data.name = "unused"

\* C1: when the invocation has ended, cb has been invoked exactly once, with
\* an error and no data or with a null error and a {name, measurements}
\* result; it is never invoked a second time.
C1_CallbackExactlyOnce ==
    /\ Len(calls) <= 1
    /\ pc = "done" => /\ Len(calls) = 1
                      /\ ErrorCall(calls[1]) \/ DataCall(calls[1])

\* C2: when the request ends with an error or a status code other than 200,
\* formatData is never entered, whatever the body, and the invocation ends
\* with the one call cb({message: 'Failure to load data url.'}).
C2_TransportFailure ==
    (pc \notin {"idle", "waiting"} /\ (response.err \/ response.statusCode # 200)) =>
        /\ formatRuns = 0
        /\ pc \in {"responded", "done"}
        /\ pc = "done" => calls = <<Call("Failure to load data url.", NoData)>>

C2_Witness ==
    /\ pc = "done"
    /\ ~response.err
    /\ response.statusCode = 404
    /\ response.body = "array"
    /\ calls = <<Call("Failure to load data url.", NoData)>>

\* C3: an exception raised while the body of a 200 response is interpreted
\* (JSON.parse on malformed text, forEach on what is no array, a row without
\* gps, parseDate or a table row throwing) reaches the catch block with
\* nothing delivered and without leaving the request callback, and the catch
\* block delivers 'Unknown adapter error.' and no data: none of the
\* measurements built before the failure is handed to cb.
C3_RowWithoutGpsThrows ==
    (adapter = "au_act" /\ pc = "rows") =>
        \A row \in JsonRows : ~row.gps => actRow(row, measurements).threw

C3_BadBodyEndsInUnknownError ==
    (/\ adapter = "au_act"
     /\ pc = "done"
     /\ response.statusCode = 200
     /\ response.body \in {"malformed", "object"}) =>
        calls = <<Call("Unknown adapter error.", NoData)>>

C3_ErrorFirstMeansErrorOnly ==
    (pc = "done" /\ calls # <<>> /\ calls[1].err = "Unknown adapter error.") =>
        calls = <<Call("Unknown adapter error.", NoData)>>

C3_ParseFailure ==
    /\ [](C3_RowWithoutGpsThrows /\ C3_BadBodyEndsInUnknownError /\ C3_ErrorFirstMeansErrorOnly)
    /\ [][(pc' = "catch" /\ pc # "deliver") => (calls' = <<>> /\ ~escaped' /\ ~data'.defined)]_vars
    /\ [][(pc = "catch" /\ calls = <<>>) =>
            (calls' = <<Call("Unknown adapter error.", NoData)>> /\ pc' = "done")]_vars

C3_Witness ==
    /\ adapter = "au_act"
    /\ pc = "catch"
    /\ calls = <<>>
    /\ Len(measurements) >= 2

\* C4: in the JSON adapter, a row with its gps object appends exactly one
\* measurement per recognized key it holds (no2, o3_1hr, co, pm10, pm2_5),
\* none when it holds none of them, and raises no error; the parameter of
\* each is the mapped code of its key and its unit the fixed unit of that
\* parameter.
C4_Code == ("no2" :> "no2") @@ ("o3_1hr" :> "o3") @@ ("co" :> "co") @@
           ("pm10" :> "pm10") @@ ("pm2_5" :> "pm25")
C4_Unit == ("no2" :> "ppm") @@ ("o3" :> "ppm") @@ ("co" :> "ppm") @@
           ("pm10" :> "µg/m³") @@ ("pm25" :> "µg/m³")

C4_OnePerRecognizedKey ==
    (adapter = "au_act" /\ pc = "rows") =>
        \A row \in JsonRows : row.gps =>
            LET r == actRow(row, measurements)
                added == Added(measurements, r.measurements)
                present == DOMAIN row.fields \cap DOMAIN C4_Code
            IN /\ ~r.threw
               /\ SubSeq(r.measurements, 1, Len(measurements)) = measurements
               /\ Len(added) = Cardinality(present)
               /\ \A key \in present :
                    Cardinality({i \in 1..Len(added) : added[i].parameter = C4_Code[key]}) = 1
               /\ \A i \in 1..Len(added) :
                    /\ \E key \in present : added[i].parameter = C4_Code[key]
                    /\ added[i].unit = C4_Unit[added[i].parameter]

C4_Witness ==
    /\ adapter = "au_act"
    /\ pc = "deliver"
    /\ idy = 2
    /\ Len(data.measurements) = 3
    /\ data.measurements[1].parameter = "o3"
    /\ data.measurements[3].unit = "µg/m³"

\* C5: after the dedup loop, finalMeasurements holds at most one entry per
\* (location, parameter) pair, each entry is one of the accumulated ones and
\* its averaging period is the minimum among the accumulated entries of its
\* pair, and every pair of the accumulated list is still present.
SamePair(a, b) == a.location = b.location /\ a.parameter = b.parameter

C5_ShortestPeriodKept ==
    (adapter = "nsw" /\ pc = "deliver") =>
        /\ \A i, j \in 1..Len(finalMeasurements) :
                SamePair(finalMeasurements[i], finalMeasurements[j]) => i = j
        /\ \A f \in Range(finalMeasurements) :
                /\ f \in Range(measurements)
                /\ \A m \in Range(measurements) :
                        SamePair(f, m) => f.averagingPeriod.value <= m.averagingPeriod.value
        /\ \A m \in Range(measurements) :
                \E f \in Range(finalMeasurements) : SamePair(f, m)

C5_Witness ==
    /\ pc = "deliver"
    /\ Len(measurements) = 3
    /\ SamePair(measurements[1], measurements[2])
    /\ SamePair(measurements[2], measurements[3])
    /\ measurements[1].averagingPeriod.value = 24
    /\ measurements[2].averagingPeriod.value = 0
    /\ measurements[3].averagingPeriod.value = 1
    /\ Len(finalMeasurements) = 1
    /\ finalMeasurements[1].averagingPeriod.value = 0

\* C6: every error cb is ever handed is 'Failure to load data url.' or
\* 'Unknown adapter error.'; 'Failure to parse data.' is never delivered.
C6_TwoErrorKinds ==
    \A i \in 1..Len(calls) :
        calls[i].err \in {Null, "Failure to load data url.", "Unknown adapter error."}

C6_Witness ==
    /\ pc = "done"
    /\ adapter = "nsw"
    /\ formatRuns = 1
    /\ calls = <<Call("Unknown adapter error.", NoData)>>

\* C7: a site row with a non-empty region label sets the carried region to
\* that label and its measurements carry it as city; a site row without one
\* leaves the carried region as it is and its measurements carry that; a row
\* that is no site row changes neither the region nor the measurements. The
\* carried region is '' until the first data row.
C7_Label(row) ==
    IF \E k \in 1..Len(row) : row[k].class = "region" /\ row[k].text # ""
    THEN row[CHOOSE k \in 1..Len(row) : row[k].class = "region" /\ row[k].text # ""].text
    ELSE ""
C7_IsSiteRow(row) == \E k \in 1..Len(row) : row[k].class = "site"

C7_RowKeepsOrSetsRegion ==
    (pc = "rows" /\ idy >= FirstDataRow) =>
        \A row \in RegionDataRows :
            LET r == dataRow(row, indexParams, region, date, measurements)
                added == Added(measurements, r.measurements)
                expected == IF C7_IsSiteRow(row) /\ C7_Label(row) # ""
                            THEN C7_Label(row) ELSE region
            IN /\ r.region = expected
               /\ SubSeq(r.measurements, 1, Len(measurements)) = measurements
               /\ \A i \in 1..Len(added) : added[i].city = expected
               /\ ~C7_IsSiteRow(row) => added = <<>>

C7_RegionCarriedForward ==
    /\ [](C7_RowKeepsOrSetsRegion /\ (idy <= FirstDataRow => region = ""))
    /\ [][(pc = "rows" /\ idy >= FirstDataRow /\ idy' = idy + 1) =>
            /\ region' = region \/ region' \in RegionTexts \ {""}
            /\ SubSeq(measurements', 1, Len(measurements)) = measurements
            /\ \A i \in (Len(measurements) + 1)..Len(measurements') :
                    measurements'[i].city = region']_vars

C7_Witness ==
    /\ idy = FirstDataRow + 3
    /\ Len(measurements) = 3
    /\ measurements[1].city = "Sydney"
    /\ measurements[2].city = "Sydney"
    /\ measurements[3].city = "Illawarra"
    /\ measurements[1].location # measurements[2].location

\* C8: in a site row, the column of a cell is the sum of the colspans up to
\* and including it, plus one when the row has no region cell; a cell with
\* text whose column has a header entry appends one measurement with that
\* entry's parameter and averaging period, in cell order, and no other cell
\* appends anything. No two header entries share a column.
C8_Span(cell) == IF cell.colspan = "2" THEN 2 ELSE 1
RECURSIVE C8_Sum(_, _)
C8_Sum(row, k) == IF k = 0 THEN 0 ELSE C8_Sum(row, k - 1) + C8_Span(row[k])
C8_Col(row, k) ==
    (IF \E j \in 1..Len(row) : row[j].class = "region" THEN 0 ELSE 1) + C8_Sum(row, k)
C8_Hours == ("1" :> 1) @@ ("24" :> 24) @@ (Null :> 0)
C8_Hits(row, ip) ==
    {k \in 1..Len(row) : row[k].text # "" /\ \E i \in 1..Len(ip) : ip[i].col = C8_Col(row, k)}

C8_CellSelectsColumnEntry ==
    (pc = "rows" /\ idy = FirstDataRow) =>
        /\ \A i, j \in 1..Len(indexParams) : indexParams[i].col = indexParams[j].col => i = j
        /\ \A row \in SiteRows(MaxCells, {"Sydney"}, {"Bargo"}) :
            LET r == dataRow(row, indexParams, region, date, measurements)
                added == Added(measurements, r.measurements)
                hits == C8_Hits(row, indexParams)
            IN /\ Len(added) = Cardinality(hits)
               /\ \A k \in hits :
                    LET rank == Cardinality({h \in hits : h <= k})
                        entry == CHOOSE e \in Range(indexParams) : e.col = C8_Col(row, k)
                    IN /\ added[rank].parameter = entry.parameter
                       /\ added[rank].averagingPeriod = [value |-> C8_Hours[entry.avgPeriod],
                                                         unit |-> "hours"]
                       /\ added[rank].value = Number(row[k].text)

C8_Witness ==
    /\ pc = "rows"
    /\ idy = FirstDataRow + 1
    /\ Len(indexParams) = 2
    /\ indexParams[1].col = 2
    /\ indexParams[2].col = 4
    /\ Len(measurements) = 2
    /\ measurements[1].parameter = <<"o", "3">>
    /\ measurements[1].value = NaN
    /\ measurements[1].averagingPeriod.value = 24
    /\ measurements[2].parameter = <<"p", "m", "2", "5">>
    /\ measurements[2].averagingPeriod.value = 0
    /\ measurements[2].value = Num(5)

\* C9: the document's date is read once, from the three parts of td.date: the
\* listed day at the 'to' hour of the range, or hour 0 of the following day
\* when the 'to' time is 12am; every measurement of the document carries it.
C9_Day(d) == [Y |-> d.Y, M |-> d.M, D |-> d.D]
C9_DayAfter ==
    ([D |-> 13, M |-> 12, Y |-> 2016] :> [D |-> 14, M |-> 12, Y |-> 2016]) @@
    ([D |-> 31, M |-> 12, Y |-> 2016] :> [D |-> 1, M |-> 1, Y |-> 2017]) @@
    ([D |-> 28, M |-> 2, Y |-> 2016] :> [D |-> 29, M |-> 2, Y |-> 2016])
C9_ToHour ==
    (<<"12", "am">> :> 0) @@ (<<"12", "pm">> :> 12) @@ (<<"4", "pm">> :> 16) @@
    (<<"1", "am">> :> 1)
C9_To(cell) == <<cell.d2[3], cell.d2[4]>>

C9_DateRollsOverAtMidnight ==
    (pc = "rows") =>
        /\ formatRuns = 1
        /\ ~dateCell.isNull /\ dateCell.nparts = 3
        /\ date.h = C9_ToHour[C9_To(dateCell)]
        /\ C9_Day(date) = IF C9_To(dateCell) = <<"12", "am">>
                          THEN C9_DayAfter[dateCell.d1] ELSE dateCell.d1
        /\ \A i \in 1..Len(measurements) : measurements[i].date = date

C9_Witness ==
    /\ pc = "rows"
    /\ dateCell.d1 = [D |-> 31, M |-> 12, Y |-> 2016]
    /\ dateCell.d2 = <<"11", "-", "12", "am">>
    /\ date = [Y |-> 2017, M |-> 1, D |-> 1, h |-> 0]
    /\ Len(measurements) = 2
    /\ measurements[2].date = date

\* C10: row 1 throws exactly when one of its cells matches 'N-hour' over a
\* column without header entry, and the invocation then ends with the one
\* call cb({message: 'Unknown adapter error.'}), no data row being read;
\* otherwise row 1 sets the averaging period of exactly the entries whose
\* column has a matching cell, to that cell's N, and changes nothing else.
RECURSIVE C10_Col(_, _)
C10_Col(cells, k) ==
    IF k = 0 THEN 0 ELSE C10_Col(cells, k - 1) + (IF cells[k].colspan = "2" THEN 2 ELSE 1)
C10_Matching(cells) == {k \in 1..Len(cells) : cells[k].period \in {"1", "24"}}
C10_Missing(cells, ip) ==
    \E k \in C10_Matching(cells) : \A i \in 1..Len(ip) : ip[i].col # C10_Col(cells, k)

C10_PeriodRow ==
    (adapter = "nsw" /\ pc = "rows" /\ idy = 1) =>
        \A cells \in SeqsUpTo(PeriodCells, DocCells) :
            LET r == periodRow(cells, indexParams)
            IN /\ r.threw <=> C10_Missing(cells, indexParams)
               /\ ~r.threw =>
                    /\ Len(r.indexParams) = Len(indexParams)
                    /\ \A i \in 1..Len(indexParams) :
                        LET over == {k \in C10_Matching(cells) :
                                        C10_Col(cells, k) = indexParams[i].col}
                        IN /\ r.indexParams[i].col = indexParams[i].col
                           /\ r.indexParams[i].parameter = indexParams[i].parameter
                           /\ over = {} => r.indexParams[i].avgPeriod = indexParams[i].avgPeriod
                           /\ \A k \in over : r.indexParams[i].avgPeriod = cells[k].period

C10_PeriodWithoutHeader ==
    /\ []C10_PeriodRow
    /\ [][(adapter = "nsw" /\ pc = "rows" /\ idy = 1 /\ pc' = "catch") =>
            (calls' = <<>> /\ measurements' = <<>> /\ ~data'.defined)]_vars
    /\ [][(adapter = "nsw" /\ pc = "catch" /\ idy = FirstDataRow /\ calls = <<>>) =>
            (calls' = <<Call("Unknown adapter error.", NoData)>> /\ pc' = "done")]_vars

C10_Witness ==
    /\ adapter = "nsw"
    /\ pc = "catch"
    /\ idy = FirstDataRow
    /\ calls = <<>>
    /\ Len(indexParams) = 1
    /\ indexParams[1].col = 1
    /\ indexParams[1].avgPeriod = "24"

====
